---- MODULE Spec2Model ----
(***************************************************************************)
(* SkySatPrep: radiometric preparation of SkySat L1A panchromatic rasters. *)
(*                                                                         *)
(* The module models src/src/skysatprep/core.py and the driver             *)
(* src/src/radprep_skysat/cli.py:                                          *)
(*   - the numeric stages (robust_percentiles, the stretch, the optional   *)
(*     CLAHE proxy, apply_shadow_highlight_tone, the 16-bit quantiser) in   *)
(*     exact rational arithmetic: a float array is a record                *)
(*     [n |-> numerators, d |-> common denominator].  Rounding of float32  *)
(*     and float64 is not modelled;                                        *)
(*   - copy_sidecars over a small file system of sidecar files;            *)
(*   - main / process_pair_dirs / process_one as a step machine whose      *)
(*     external outcomes (GDAL opens, subprocess results, os.remove) are   *)
(*     chosen nondeterministically.                                        *)
(***************************************************************************)
EXTENDS Integers, Sequences, FiniteSets, TLC

VARIABLES
    pct,     \* one call of robust_percentiles: arguments and return value
    tone,    \* one call of apply_shadow_highlight_tone: arguments and return value
    px,      \* the pixel path of process_one (lines 165-182) for one raster
    srcSide, \* per source raster: its sidecar files, existing suffix -> content
    dstSide, \* per source raster: its sidecar files in the output directory
    copied,  \* the list copy_sidecars returned last
    lastOp,  \* the operation that produced the current file-system state
    cfg,     \* the keyword arguments main passes to both process_pair_dirs calls
    srcDir,  \* per pair: the names of the matching rasters in the source directory
    dirOk,   \* per pair: whether the source directory can be listed
    main,    \* main and process_pair_dirs: position, current pair, tifs, loop index
    one,     \* process_one for the current raster: position, calls made, log
    report   \* what process_pair_dirs has attempted and logged, per pair

vars == <<pct, tone, px, srcSide, dstSide, copied, lastOp,
          cfg, srcDir, dirOk, main, one, report>>
batchVars == <<cfg, srcDir, dirOk, main, one, report>>
numVars == <<pct, tone, px>>
fsVars == <<srcSide, dstSide, copied, lastOp>>

NoneVal == "None"

\* ------------------------------------------------------------------ bounds
MaxLen == 4          \* longest sample array given to robust_percentiles
ToneGrid == 10       \* tone inputs are the grid points k/ToneGrid of [0,1]
MaxPixLen == 2       \* largest raster (in samples) sent through the pixel path
MaxFiles == 2        \* matching rasters per source directory are named 1..MaxFiles
MaxContent == 2      \* distinct contents a source sidecar may take over time

\* ------------------------------------------------------- program constants
U16Max == 65535      \* saturation sentinel, core.py line 102
NoData == 0          \* no-data sentinel, core.py lines 102 and 123

\* Percentages are whole numbers; a percentile of integer samples is then a
\* multiple of 1/100, and ranges are carried multiplied by PctScale.
PctScale == 10 * 10
\* shadow_boost and highlight_comp are carried as numerators over ParamDen.
ParamDen == 4 * 5

\* ------------------------------------------------------------ input sets
PctSamples == {0, 1, 10, 100, 65534, 65535}
PctChoices == {0, 1, 50, 99, 100}
\* the pixel path squares its denominators twice: its inputs are kept small
PixSamples == {0, 1, 2, 3, 65535}
PixPctChoices == {0, 50, 100}
PixShadowChoices == {0, ParamDen \div 5, ParamDen \div 2}          \* 0, 0.2, 0.5
PixHighlightChoices == {0, ParamDen \div 10, (2 * ParamDen) \div 5} \* 0, 0.1, 0.4
PixClaheClipChoices == {0, 3}
\* cv2's CLAHE is an external library: its result is any 8-bit array of the
\* input's shape over these levels
ClaheLevels == {0, 85, 255}

\* the two source/output directory pairs of cli.py, and the rasters in them
Pairs == {1, 2}
FileNames == 1..MaxFiles
TifKeys == Pairs \X FileNames

\* lines 17-24
SIDECAR_SUFFIXES ==
    << ".RPB", ".rpb", "_RPC.TXT", "_rpc.txt", ".json", ".JSON",
       "_metadata.json", "_METADATA.JSON", ".imd", ".IMD", ".xml", ".XML" >>
Suffixes == {SIDECAR_SUFFIXES[i] : i \in 1..Len(SIDECAR_SUFFIXES)}
\* the sidecars the environment creates, rewrites or deletes
TouchedSuffixes == {".RPB", "_rpc.txt", ".json"}
\* content of a file that was in the output directory before any run
Foreign == 0 - 1
\* A directory is a function from the suffixes of the existing sidecars to
\* their contents.
NoSidecars == [suf \in {} |-> 0]
Exists(dir, suf) == suf \in DOMAIN dir
WriteFile(dir, suf, c) == [x \in DOMAIN dir \cup {suf} |-> IF x = suf THEN c ELSE dir[x]]
DeleteFile(dir, suf) == [x \in DOMAIN dir \ {suf} |-> dir[x]]
\* the directory holding the files of f, those with content 0 left out
DirOf(f) == [x \in {y \in DOMAIN f : f[y] # 0} |-> f[x]]

\* ---------------------------------------------------------------- helpers
Min2(a, b) == IF a <= b THEN a ELSE b
Max2(a, b) == IF a >= b THEN a ELSE b

SeqsUpTo(S, k) == UNION {[1..m -> S] : m \in 1..k}

RECURSIVE InsertSorted(_, _)
InsertSorted(s, x) ==
    IF s = <<>> THEN <<x>>
    ELSE IF x <= Head(s) THEN <<x>> \o s
    ELSE <<Head(s)>> \o InsertSorted(Tail(s), x)

RECURSIVE Sorted(_)
Sorted(s) == IF s = <<>> THEN <<>> ELSE InsertSorted(Sorted(Tail(s)), Head(s))

SeqMin(s) == CHOOSE x \in {s[i] : i \in 1..Len(s)} : \A j \in 1..Len(s) : x <= s[j]
SeqMax(s) == CHOOSE x \in {s[i] : i \in 1..Len(s)} : \A j \in 1..Len(s) : x >= s[j]

\* np.percentile(nz, p), default "linear" method, times PctScale: the virtual
\* index p/100*(n-1) is split into its whole part and its hundredths, and the
\* value is interpolated between the two neighbouring ranked samples.
Percentile(nz, p) ==
    LET sorted == Sorted(nz)
        pos    == p * (Len(nz) - 1)
        i      == pos \div PctScale
        f      == pos % PctScale
    IN  IF f = 0 THEN PctScale * sorted[i + 1]
        ELSE PctScale * sorted[i + 1] + f * (sorted[i + 2] - sorted[i + 1])

IsValidSample(v) == v > 0 /\ v < U16Max

\* robust_percentiles without the exclusion of the saturation sentinel
robust_percentiles_keep_saturated(arr_u16, pmin, pmax) ==
    LET nz == SelectSeq(arr_u16, LAMBDA v : v > 0)
    IN  IF Len(nz) = 0 THEN <<1 * PctScale, 99 * PctScale>>
        ELSE LET lo == Percentile(nz, pmin)
                 hi == Percentile(nz, pmax)
             IN  IF hi <= lo
                 THEN <<PctScale * SeqMin(nz), PctScale * SeqMax(nz)>>
                 ELSE <<lo, hi>>

\* robust_percentiles without the min/max fallback of lines 106-107
robust_percentiles_no_fallback(arr_u16, pmin, pmax) ==
    LET nz == SelectSeq(arr_u16, IsValidSample)
    IN  IF Len(nz) = 0 THEN <<1 * PctScale, 99 * PctScale>>
        ELSE <<Percentile(nz, pmin), Percentile(nz, pmax)>>

\* robust_percentiles: <<lo, hi>> times PctScale.  The data are finite, so the
\* np.isfinite tests of line 106 never fire.
robust_percentiles(arr_u16, pmin, pmax) ==
    LET nz == SelectSeq(arr_u16, IsValidSample)
    IN  IF Len(nz) = 0 THEN <<1 * PctScale, 99 * PctScale>>
        ELSE LET lo == Percentile(nz, pmin)
                 hi == Percentile(nz, pmax)
             IN  IF hi <= lo
                 THEN <<PctScale * SeqMin(nz), PctScale * SeqMax(nz)>>
                 ELSE <<lo, hi>>

\* ------------------------------------------------------------ float arrays
\* A float array is [n |-> numerators, d |-> denominator > 0]: element i is the
\* exact rational n[i]/d.
RECURSIVE Gcd(_, _)
Gcd(a, b) == IF b = 0 THEN a ELSE Gcd(b, a % b)

RECURSIVE GcdSeq(_, _)
GcdSeq(s, g) == IF s = <<>> THEN g ELSE GcdSeq(Tail(s), Gcd(g, Head(s)))

\* the same array of rationals in lowest common terms
Reduce(a) ==
    LET g == GcdSeq(a.n, a.d)
    IN  [n |-> [i \in 1..Len(a.n) |-> a.n[i] \div g], d |-> a.d \div g]

\* np.clip(y, 0.0, 1.0)
Clip01(a) ==
    [n |-> [i \in 1..Len(a.n) |-> Max2(0, Min2(a.d, a.n[i]))], d |-> a.d]

\* line 133 with the leading "y +" lost: shadow_boost * (1 - y) * (1 - y)
ShadowLift_without_base(y, sb) ==
    [n |-> [i \in 1..Len(y.n) |-> sb * (y.d - y.n[i]) * (y.d - y.n[i])],
     d |-> ParamDen * y.d * y.d]

\* line 133: y + shadow_boost * (1 - y) * (1 - y), shadow_boost = sb/ParamDen
ShadowLift(y, sb) ==
    [n |-> [i \in 1..Len(y.n) |->
                y.n[i] * y.d * ParamDen + sb * (y.d - y.n[i]) * (y.d - y.n[i])],
     d |-> ParamDen * y.d * y.d]

\* line 135: y - highlight_comp * (y * y), highlight_comp = hc/ParamDen
HighlightCompress(y, hc) ==
    [n |-> [i \in 1..Len(y.n) |->
                y.n[i] * y.d * ParamDen - hc * y.n[i] * y.n[i]],
     d |-> ParamDen * y.d * y.d]

apply_shadow_highlight_tone(arr01, shadow_boost, highlight_comp) ==
    IF shadow_boost <= 0 /\ highlight_comp <= 0 THEN arr01
    ELSE LET y1 == IF shadow_boost > 0 THEN ShadowLift(arr01, shadow_boost) ELSE arr01
             y2 == IF highlight_comp > 0 THEN HighlightCompress(y1, highlight_comp) ELSE y1
         IN  Clip01(y2)

\* the documented parameter ranges, cli.py lines 24-25: 0..0.5 and 0..0.4
ShadowBoostMax == ParamDen \div 2
HighlightCompMax == (2 * ParamDen) \div 5

\* --------------------------------------------------- stretch and quantiser
\* <<q, r>> with a * b = q * c + r and 0 <= r < c, by the bits of b (the
\* product itself may not fit a machine integer)
RECURSIVE MulDivMod(_, _, _)
MulDivMod(a, b, c) ==
    IF b = 0 THEN <<0, 0>>
    ELSE LET h == MulDivMod(a, b \div 2, c)
             t == 2 * h[2] + (b % 2) * a
         IN  <<2 * h[1] + (t \div c), t % c>>

\* the truncation of (n/d) * scale + 0.5, for n >= 0
ScaleAddHalfTrunc(n, d, scale) ==
    LET qr == MulDivMod(n, scale, d)
    IN  qr[1] + (IF 2 * qr[2] >= d THEN 1 ELSE 0)

\* lines 170-171: np.clip((arrf - lo) / max(1e-6, hi - lo), 0, 1), lo and hi
\* times PctScale.  hi - lo is 0 or at least 1/PctScale; when it is 0 the
\* divisor is 1e-6 and a sample above lo (by at least 1/PctScale) clips to 1.
Stretch(arr, lo, hi) ==
    IF hi - lo >= 1
    THEN Reduce(Clip01([n |-> [i \in 1..Len(arr) |-> PctScale * arr[i] - lo],
                        d |-> hi - lo]))
    ELSE [n |-> [i \in 1..Len(arr) |-> IF PctScale * arr[i] - lo > 0 THEN 1 ELSE 0],
          d |-> 1]

\* line 174: (arrf * 255.0 + 0.5).astype(np.uint8)
ToUint8(arrf) ==
    [i \in 1..Len(arrf.n) |-> ScaleAddHalfTrunc(arrf.n[i], arrf.d, 255) % 256]

\* line 178: arr8.astype(np.float32) / 255.0
FromUint8(arr8) == Reduce([n |-> arr8, d |-> 255])

\* lines 175-177: the arrays cv2's CLAHE may return for arr8
ClaheOutputs(arr8) == [1..Len(arr8) -> ClaheLevels]

\* line 181: (arrf * 65535.0 + 0.5).astype(np.uint16)
Quantize16(arrf) ==
    [i \in 1..Len(arrf.n) |-> ScaleAddHalfTrunc(arrf.n[i], arrf.d, U16Max) % (U16Max + 1)]

\* ------------------------------------------------------------ sidecar copy
\* copy_sidecars with the test "if not dst.exists()" of line 39 lost
RECURSIVE CopyLoop_overwrite(_, _, _, _)
CopyLoop_overwrite(i, src, dst, done) ==
    IF i > Len(SIDECAR_SUFFIXES) THEN [dst |-> dst, copied |-> done]
    ELSE LET suf == SIDECAR_SUFFIXES[i]
         IN  IF Exists(src, suf)
             THEN CopyLoop_overwrite(i + 1, src, WriteFile(dst, suf, src[suf]),
                                     Append(done, suf))
             ELSE CopyLoop_overwrite(i + 1, src, dst, done)

\* lines 35-41, from the i-th suffix on: src and dst are the sidecars of one
\* raster in the source and the output directory, done the names appended so far
RECURSIVE CopyLoop(_, _, _, _)
CopyLoop(i, src, dst, done) ==
    IF i > Len(SIDECAR_SUFFIXES) THEN [dst |-> dst, copied |-> done]
    ELSE LET suf == SIDECAR_SUFFIXES[i]
         IN  IF Exists(src, suf)
             THEN CopyLoop(i + 1, src,
                           IF ~Exists(dst, suf) THEN WriteFile(dst, suf, src[suf]) ELSE dst,
                           Append(done, suf))
             ELSE CopyLoop(i + 1, src, dst, done)

\* copy_sidecars(src_tif, dst_dir): the output directory afterwards, and the
\* returned list
copy_sidecars(src, dst) == CopyLoop(1, src, dst, <<>>)

\* ------------------------------------------------------------- batch driver
\* Python truthiness of an optional argument
Truthy(x) == x \notin {NoneVal, "", "0.0"}

\* the guard of line 195 with the terrain model and the CRS not tested
QuicklookEnabled_flag_only(c) == c.do_quicklook /\ Truthy(c.ql_res)

\* line 195: the guard of the preview block
QuicklookEnabled(c) ==
    c.do_quicklook /\ Truthy(c.dem_path) /\ Truthy(c.t_srs) /\ Truthy(c.ql_res)

\* process_one with the preview block moved before the RPC transplant
NextStage_preview_first(stage) ==
    CASE stage = "open" -> "write"
      [] stage = "write" -> "quicklook"
      [] stage = "quicklook" -> "remove"
      [] stage = "remove" -> "embed"
      [] stage = "embed" -> "verify"
      [] stage = "verify" -> "pyramids"
      [] stage = "pyramids" -> "return"

\* the order of the stages of process_one, lines 154-204
NextStage(stage) ==
    CASE stage = "open" -> "write"            \* lines 154-163, then 165-182
      [] stage = "write" -> "embed"           \* line 182, then 184-187
      [] stage = "embed" -> "verify"          \* line 186, then 188-189
      [] stage = "verify" -> "pyramids"       \* lines 191-192
      [] stage = "pyramids" -> "quicklook"    \* lines 194-196
      [] stage = "quicklook" -> "remove"      \* lines 197-202
      [] stage = "remove" -> "return"         \* line 204

\* find_tifs: the matching names, sorted
RECURSIVE SortedNames(_)
SortedNames(S) ==
    IF S = {} THEN <<>>
    ELSE LET m == CHOOSE x \in S : \A y \in S : x <= y
         IN  <<m>> \o SortedNames(S \ {m})
find_tifs(p) == SortedNames(srcDir[p])

\* process_one at its first line / not running
FreshOne ==
    [pc |-> "open", events |-> <<>>, warns |-> {}, faults |-> {}, raisedBy |-> NoneVal,
     dst_pixels |-> FALSE, dst_rpc |-> FALSE, ql_path |-> NoneVal, ql_exists |-> FALSE]
IdleOne == [FreshOne EXCEPT !.pc = "idle"]

\* an exception leaves process_one
Raise(o, cause) ==
    [o EXCEPT !.pc = "raised", !.raisedBy = cause, !.faults = @ \cup {cause}]

\* the for loop of line 215 moves on: the next raster, or the return to main,
\* which calls the second pair (cli.py lines 38-39) or ends
LoopContinue(m) ==
    IF m.idx < Len(m.tifs) THEN [m EXCEPT !.idx = @ + 1]
    ELSE IF m.pair = 1 THEN [pc |-> "call", pair |-> 2, tifs |-> <<>>, idx |-> 0]
    ELSE [pc |-> "done", pair |-> 2, tifs |-> <<>>, idx |-> 0]

\* no try/except around process_one: the exception ends main
OnException_uncaught(m) == [m EXCEPT !.pc = "crashed"]

\* lines 222-223: the exception is caught and the loop moves on
OnException(m) == LoopContinue(m)

\* ------------------------------------------- specification: the estimator
\* copy_sidecars is not called
InitFsIdle ==
    /\ srcSide = NoneVal
    /\ dstSide = NoneVal
    /\ copied = <<>>
    /\ lastOp = "init"

InitNumIdle ==
    /\ pct = NoneVal
    /\ tone = NoneVal
    /\ px = NoneVal

\* the batch driver is not running
InitBatchIdle ==
    /\ cfg = NoneVal
    /\ srcDir = [p \in Pairs |-> {}]
    /\ dirOk = [p \in Pairs |-> TRUE]
    /\ main = NoneVal
    /\ one = NoneVal
    /\ report = NoneVal

InitPct ==
    /\ pct \in [arr_u16 : SeqsUpTo(PctSamples, MaxLen),
                pmin : PctChoices, pmax : PctChoices,
                called : {FALSE}, ret : {<<>>}]
    /\ pct.pmin < pct.pmax
    /\ tone = NoneVal
    /\ px = NoneVal
    /\ InitFsIdle
    /\ InitBatchIdle

CallRobustPercentiles ==
    /\ ~pct.called
    /\ pct' = [pct EXCEPT !.called = TRUE,
                          !.ret = robust_percentiles(pct.arr_u16, pct.pmin, pct.pmax)]
    /\ UNCHANGED <<tone, px>>
    /\ UNCHANGED <<fsVars, batchVars>>

NextPct == CallRobustPercentiles

SpecPct == InitPct /\ [][NextPct]_vars

\* ------------------------------------------ specification: the tone curve
\* The input array holds two grid points of [0,1] (in either order).
InitTone ==
    /\ tone \in [arr01 : [n : [1..2 -> 0..ToneGrid], d : {ToneGrid}],
                 shadow_boost : 0..ShadowBoostMax,
                 highlight_comp : 0..HighlightCompMax,
                 called : {FALSE}, ret : {<<>>}]
    /\ pct = NoneVal
    /\ px = NoneVal
    /\ InitFsIdle
    /\ InitBatchIdle

CallTone ==
    /\ ~tone.called
    /\ tone' = [tone EXCEPT !.called = TRUE,
                            !.ret = apply_shadow_highlight_tone(
                                        tone.arr01, tone.shadow_boost, tone.highlight_comp)]
    /\ UNCHANGED <<pct, px>>
    /\ UNCHANGED <<fsVars, batchVars>>

NextTone == CallTone

SpecTone == InitTone /\ [][NextTone]_vars

\* ------------------------------------------ specification: the pixel path
\* process_one from the read of the source band to the written destination
\* band, for one raster and one configuration.
InitPx ==
    /\ px \in [stage : {"read"},
               arr : SeqsUpTo(PixSamples, MaxPixLen),
               pmin : PixPctChoices, pmax : PixPctChoices,
               has_cv2 : BOOLEAN, clahe_clip : PixClaheClipChoices,
               shadow_boost : PixShadowChoices, highlight_comp : PixHighlightChoices,
               lo : {0}, hi : {0}, arrf : {<<>>},
               dst_pixels : {<<>>}, dst_nodata : {NoneVal}]
    /\ px.pmin < px.pmax
    /\ pct = NoneVal
    /\ tone = NoneVal
    /\ InitFsIdle
    /\ InitBatchIdle

\* line 169
PxEstimate ==
    /\ px.stage = "read"
    /\ LET r == robust_percentiles(px.arr, px.pmin, px.pmax)
       IN  px' = [px EXCEPT !.stage = "estimated", !.lo = r[1], !.hi = r[2]]
    /\ UNCHANGED <<pct, tone>>
    /\ UNCHANGED <<fsVars, batchVars>>

\* lines 170-171
PxStretch ==
    /\ px.stage = "estimated"
    /\ px' = [px EXCEPT !.stage = "stretched", !.arrf = Stretch(px.arr, px.lo, px.hi)]
    /\ UNCHANGED <<pct, tone>>
    /\ UNCHANGED <<fsVars, batchVars>>

\* lines 173-178: the local-contrast stage, or nothing when it is disabled
PxClahe ==
    /\ px.stage = "stretched"
    /\ \/ /\ px.has_cv2 /\ px.clahe_clip > 0
          /\ \E out8 \in ClaheOutputs(ToUint8(px.arrf)) :
                px' = [px EXCEPT !.stage = "enhanced", !.arrf = FromUint8(out8)]
       \/ /\ ~(px.has_cv2 /\ px.clahe_clip > 0)
          /\ px' = [px EXCEPT !.stage = "enhanced"]
    /\ UNCHANGED <<pct, tone>>
    /\ UNCHANGED <<fsVars, batchVars>>

\* line 180
PxTone ==
    /\ px.stage = "enhanced"
    /\ px' = [px EXCEPT !.stage = "toned",
                        !.arrf = apply_shadow_highlight_tone(
                                     px.arrf, px.shadow_boost, px.highlight_comp)]
    /\ UNCHANGED <<pct, tone>>
    /\ UNCHANGED <<fsVars, batchVars>>

\* lines 181-182 with _write_uint16_like (lines 121-125): the band is written
\* and 0 is declared its no-data value
PxQuantizeWrite ==
    /\ px.stage = "toned"
    /\ px' = [px EXCEPT !.stage = "written",
                        !.dst_pixels = Quantize16(px.arrf),
                        !.dst_nodata = 0]
    /\ UNCHANGED <<pct, tone>>
    /\ UNCHANGED <<fsVars, batchVars>>

NextPx == PxEstimate \/ PxStretch \/ PxClahe \/ PxTone \/ PxQuantizeWrite

SpecPx == InitPx /\ [][NextPx]_vars

\* ------------------------------------------ specification: sidecar copies
\* Repeated runs of copy_sidecars for raster 1 of pair 1 (the call of line
\* 155), while the source sidecars are created, rewritten and deleted between
\* the runs.  The output directory may hold foreign files of the same names
\* before the first run.
SideKey == <<1, 1>>

InitSide ==
    /\ InitNumIdle
    /\ \E s \in [TouchedSuffixes -> 0..MaxContent], d \in [TouchedSuffixes -> {0, Foreign}] :
          /\ srcSide = [k \in {SideKey} |-> DirOf(s)]
          /\ dstSide = [k \in {SideKey} |-> DirOf(d)]
    /\ copied = <<>>
    /\ lastOp = "init"
    /\ InitBatchIdle

\* line 155
RunCopySidecars ==
    /\ LET r == copy_sidecars(srcSide[SideKey], dstSide[SideKey])
       IN  /\ dstSide' = [dstSide EXCEPT ![SideKey] = r.dst]
           /\ copied' = r.copied
    /\ lastOp' = "copy_sidecars"
    /\ UNCHANGED <<srcSide, numVars, batchVars>>

\* the environment deletes a source sidecar, or creates or rewrites one
TouchSourceSidecar ==
    /\ \E suf \in TouchedSuffixes :
          \/ /\ Exists(srcSide[SideKey], suf)
             /\ srcSide' = [srcSide EXCEPT ![SideKey] = DeleteFile(@, suf)]
          \/ \E c \in 1..MaxContent :
                /\ ~(Exists(srcSide[SideKey], suf) /\ srcSide[SideKey][suf] = c)
                /\ srcSide' = [srcSide EXCEPT ![SideKey] = WriteFile(@, suf, c)]
    /\ lastOp' = "touch"
    /\ UNCHANGED <<dstSide, copied, numVars, batchVars>>

NextSide == RunCopySidecars \/ TouchSourceSidecar

SpecSide == InitSide /\ [][NextSide]_vars

\* ---------------------------------------------- specification: the batch run
\* One run of main: process_pair_dirs for pair 1, then for pair 2, each
\* calling process_one per matching raster.  Every outcome of the environment
\* (GDAL opens, the RPC block of the source, the subprocesses, os.remove) is
\* chosen when the step that meets it is taken.
Configs ==
    [do_pyramids : BOOLEAN, do_quicklook : BOOLEAN, rm_quicklook : BOOLEAN,
     dem_path : {NoneVal, "dem.tif"}, t_srs : {NoneVal, "EPSG:32608"},
     ql_res : {NoneVal, "0.0", "1.0"}]

\* Every configuration, over every content of the two source directories.
Init ==
    /\ InitNumIdle
    /\ cfg \in Configs
    /\ srcDir \in [Pairs -> SUBSET FileNames]
    /\ dirOk \in [Pairs -> BOOLEAN]
    /\ srcSide = [k \in TifKeys |->
                    IF k[1] = 1 THEN WriteFile(NoSidecars, "_RPC.TXT", 1) ELSE NoSidecars]
    /\ dstSide = [k \in TifKeys |-> NoSidecars]
    /\ copied = <<>>
    /\ lastOp = "init"
    /\ main = [pc |-> "call", pair |-> 1, tifs |-> <<>>, idx |-> 0]
    /\ one = IdleOne
    /\ report = [attempted |-> [p \in Pairs |-> <<>>],
                 wrote |-> [p \in Pairs |-> <<>>],
                 errors |-> [p \in Pairs |-> <<>>],
                 nofiles |-> {}]

CurrentTif == main.tifs[main.idx]
CurrentKey == <<main.pair, CurrentTif>>

\* lines 210-211: iterdir raises when the source directory cannot be listed;
\* nothing in process_pair_dirs or main catches it
ListDirFails ==
    /\ main.pc = "call"
    /\ ~dirOk[main.pair]
    /\ main' = [main EXCEPT !.pc = "crashed"]
    /\ UNCHANGED <<numVars, fsVars, cfg, srcDir, dirOk, one, report>>

\* lines 210-214: no matching raster is a warning, and the call returns
ListDirEmpty ==
    /\ main.pc = "call"
    /\ dirOk[main.pair]
    /\ find_tifs(main.pair) = <<>>
    /\ report' = [report EXCEPT !.nofiles = @ \cup {main.pair}]
    /\ main' = LoopContinue([main EXCEPT !.tifs = <<>>, !.idx = 0])
    /\ UNCHANGED <<numVars, fsVars, cfg, srcDir, dirOk, one>>

\* lines 210-215: the loop starts at the first raster
ListDirStart ==
    /\ main.pc = "call"
    /\ dirOk[main.pair]
    /\ find_tifs(main.pair) # <<>>
    /\ main' = [main EXCEPT !.pc = "loop", !.tifs = find_tifs(main.pair), !.idx = 1]
    /\ one' = FreshOne
    /\ UNCHANGED <<numVars, fsVars, cfg, srcDir, dirOk, report>>

\* lines 154-163: the sidecars are copied, then the source is opened.  With
\* gdal.UseExceptions() (line 14) a failed gdal.Open raises.
OpenSource ==
    /\ main.pc = "loop" /\ one.pc = "open"
    /\ LET r == copy_sidecars(srcSide[CurrentKey], dstSide[CurrentKey])
       IN  /\ dstSide' = [dstSide EXCEPT ![CurrentKey] = r.dst]
           /\ copied' = r.copied
    /\ lastOp' = "copy_sidecars"
    /\ report' = [report EXCEPT !.attempted[main.pair] = Append(@, CurrentTif)]
    /\ \/ one' = Raise(one, "src_open")
       \/ one' = Raise(one, "src_bands")
       \/ one' = [one EXCEPT !.pc = NextStage("open")]
    /\ UNCHANGED <<numVars, srcSide, cfg, srcDir, dirOk, main>>

\* lines 165-182: the pixel path, then _write_uint16_like (lines 113-126)
\* creates the destination, writes the band and flushes
WritePixels ==
    /\ main.pc = "loop" /\ one.pc = "write"
    /\ \/ one' = Raise(one, "dst_create")
       \/ one' = [one EXCEPT !.pc = NextStage("write"),
                             !.events = @ \o <<"WriteArray", "FlushCache">>,
                             !.dst_pixels = TRUE]
    /\ UNCHANGED <<numVars, fsVars, cfg, srcDir, dirOk, main, report>>

\* lines 184-187 with embed_rpc_into_tif (lines 52-60).  The source handle, or
\* the re-opened source, gives an empty RPC block or a block.
EmbedRpc ==
    /\ main.pc = "loop" /\ one.pc = "embed"
    /\ \/ \* not rpc: return False, line 187 warns
          one' = [one EXCEPT !.pc = NextStage("verify"),
                             !.events = Append(@, "embed_rpc_into_tif"),
                             !.faults = @ \cup {"no_source_rpc"},
                             !.warns = @ \cup {"no_rpc_embedded"}]
       \/ \* gdal.Open(dst, GA_Update) fails: it raises, line 56 is never reached
          one' = Raise([one EXCEPT !.events = Append(@, "embed_rpc_into_tif")],
                       "embed_open")
       \/ \* the block is set and the dataset closed: return True
          one' = [one EXCEPT !.pc = NextStage("embed"),
                             !.events = @ \o <<"embed_rpc_into_tif", "SetMetadata_RPC">>,
                             !.dst_rpc = TRUE]
    /\ UNCHANGED <<numVars, fsVars, cfg, srcDir, dirOk, main, report>>

\* lines 188-189 with verify_embedded_rpc (lines 62-68)
VerifyRpc ==
    /\ main.pc = "loop" /\ one.pc = "verify"
    /\ \/ \* gdal.Open(dst, GA_ReadOnly) fails: it raises
          one' = Raise([one EXCEPT !.events = Append(@, "verify_embedded_rpc")],
                       "verify_open")
       \/ \* the RPC namespace read back is empty: line 189 warns
          one' = [one EXCEPT !.pc = NextStage("verify"),
                             !.events = Append(@, "verify_embedded_rpc"),
                             !.faults = @ \cup {"verify_empty"},
                             !.warns = @ \cup {"rpc_not_verified"}]
       \/ one' = [one EXCEPT !.pc = NextStage("verify"),
                             !.events = Append(@, "verify_embedded_rpc")]
    /\ UNCHANGED <<numVars, fsVars, cfg, srcDir, dirOk, main, report>>

\* lines 191-192 with build_pyramids (lines 70-75): every exception of
\* subprocess.run is caught there
BuildPyramids ==
    /\ main.pc = "loop" /\ one.pc = "pyramids"
    /\ \/ /\ ~cfg.do_pyramids
          /\ one' = [one EXCEPT !.pc = NextStage("pyramids")]
       \/ /\ cfg.do_pyramids
          /\ one' = [one EXCEPT !.pc = NextStage("pyramids"),
                                !.events = Append(@, "gdaladdo")]
       \/ /\ cfg.do_pyramids
          /\ \E f \in {"gdaladdo_exit", "gdaladdo_launch"} :
                one' = [one EXCEPT !.pc = NextStage("pyramids"),
                                   !.events = Append(@, "gdaladdo"),
                                   !.faults = @ \cup {f},
                                   !.warns = @ \cup {"gdaladdo_failed"}]
    /\ UNCHANGED <<numVars, fsVars, cfg, srcDir, dirOk, main, report>>

\* lines 194-196 with rpc_quicklook (lines 77-99): only CalledProcessError is
\* caught there; a gdalwarp that cannot be launched raises FileNotFoundError
RpcQuicklook ==
    /\ main.pc = "loop" /\ one.pc = "quicklook"
    /\ \/ /\ ~QuicklookEnabled(cfg)
          /\ one' = [one EXCEPT !.pc = NextStage("remove")]
       \/ /\ QuicklookEnabled(cfg)
          /\ one' = [one EXCEPT !.pc = NextStage("quicklook"),
                                !.events = Append(@, "gdalwarp"),
                                !.ql_path = "quicklook.tif",
                                !.ql_exists = TRUE]
       \/ /\ QuicklookEnabled(cfg)
          /\ one' = [one EXCEPT !.pc = NextStage("quicklook"),
                                !.events = Append(@, "gdalwarp"),
                                !.faults = @ \cup {"gdalwarp_exit"},
                                !.warns = @ \cup {"gdalwarp_failed"}]
       \/ /\ QuicklookEnabled(cfg)
          /\ one' = Raise([one EXCEPT !.events = Append(@, "gdalwarp")],
                          "gdalwarp_launch")
    /\ UNCHANGED <<numVars, fsVars, cfg, srcDir, dirOk, main, report>>

\* lines 197-202, inside the preview block
RemoveQuicklook ==
    /\ main.pc = "loop" /\ one.pc = "remove"
    /\ \/ /\ ~(cfg.rm_quicklook /\ one.ql_path # NoneVal /\ one.ql_exists)
          /\ one' = [one EXCEPT !.pc = NextStage("remove")]
       \/ /\ cfg.rm_quicklook /\ one.ql_path # NoneVal /\ one.ql_exists
          /\ one' = [one EXCEPT !.pc = NextStage("remove"),
                                !.events = Append(@, "os.remove"),
                                !.ql_exists = FALSE]
       \/ /\ cfg.rm_quicklook /\ one.ql_path # NoneVal /\ one.ql_exists
          /\ one' = [one EXCEPT !.pc = NextStage("remove"),
                                !.events = Append(@, "os.remove"),
                                !.faults = @ \cup {"remove_failed"},
                                !.warns = @ \cup {"quicklook_not_removed"}]
    /\ UNCHANGED <<numVars, fsVars, cfg, srcDir, dirOk, main, report>>

\* line 204
ReturnOne ==
    /\ main.pc = "loop" /\ one.pc = "return"
    /\ one' = [one EXCEPT !.pc = "returned"]
    /\ UNCHANGED <<numVars, fsVars, cfg, srcDir, dirOk, main, report>>

\* lines 217-221, then the next iteration
LogWrote ==
    /\ main.pc = "loop" /\ one.pc = "returned"
    /\ report' = [report EXCEPT !.wrote[main.pair] = Append(@, CurrentTif)]
    /\ main' = LoopContinue(main)
    /\ one' = IF main'.pc = "loop" THEN FreshOne ELSE IdleOne
    /\ UNCHANGED <<numVars, fsVars, cfg, srcDir, dirOk>>

\* lines 222-223, then the next iteration
CatchError ==
    /\ main.pc = "loop" /\ one.pc = "raised"
    /\ report' = [report EXCEPT !.errors[main.pair] = Append(@, CurrentTif)]
    /\ main' = OnException(main)
    /\ one' = IF main'.pc = "loop" THEN FreshOne ELSE IdleOne
    /\ UNCHANGED <<numVars, fsVars, cfg, srcDir, dirOk>>

Next ==
    \/ ListDirFails \/ ListDirEmpty \/ ListDirStart
    \/ OpenSource \/ WritePixels \/ EmbedRpc \/ VerifyRpc
    \/ BuildPyramids \/ RpcQuicklook \/ RemoveQuicklook
    \/ ReturnOne \/ LogWrote \/ CatchError

Spec == Init /\ [][Next]_vars

\* =================================================================== claims

\* ------------------------------------------------------------ the batch run
EventsOf(o) == {o.events[i] : i \in 1..Len(o.events)}
InProcessOne == main.pc = "loop" /\ one.pc # "idle"

\* the failures of the sensor-model transplant, and of the external tools
TransplantFaults == {"no_source_rpc", "embed_open", "verify_open", "verify_empty"}
ToolFaults == {"gdaladdo_exit", "gdaladdo_launch", "gdalwarp_exit", "gdalwarp_launch"}

\* C1 as stated: a missing source RPC block, a destination that cannot be
\* opened for the RPC write, or a destination that cannot be re-opened or has
\* an empty RPC namespace at verification only logs a warning; none of them
\* makes process_one raise (and so none is logged as an error), and
\* process_one goes on to the overview and preview stages.
C1_TransplantNeverFatal ==
    InProcessOne =>
        /\ one.raisedBy \notin TransplantFaults
        /\ (one.faults \cap TransplantFaults # {}) =>
               one.warns \cap {"no_rpc_embedded", "rpc_not_verified"} # {}

\* C2 as stated: an overview builder or preview warper that exits non-zero or
\* cannot be launched is turned into a logged warning; no such failure leaves
\* process_one as an exception.
C2_ToolFailuresNeverEscape ==
    InProcessOne =>
        /\ one.raisedBy \notin ToolFaults
        /\ (one.faults \cap ToolFaults # {}) =>
               one.warns \cap {"gdaladdo_failed", "gdalwarp_failed"} # {}

\* s is an initial part of t
IsPrefix(s, t) == Len(s) <= Len(t) /\ \A i \in 1..Len(s) : s[i] = t[i]

\* C3: whatever subset of the matched rasters raises, at whatever stage,
\* process_pair_dirs catches and logs each exception and attempts every
\* matched raster of the directory in order; main ends early only when a
\* source directory cannot be listed, never because of a raster, so the
\* second pair is processed after the first.
C3_PerFileIsolation ==
    /\ main.pc = "crashed" => ~dirOk[main.pair]
    /\ \A p \in Pairs : IsPrefix(report.attempted[p], find_tifs(p))
    /\ main.pair = 2 =>
           /\ report.attempted[1] = find_tifs(1)
           /\ Len(report.wrote[1]) + Len(report.errors[1]) = Len(find_tifs(1))
    /\ main.pc = "done" =>
           \A p \in Pairs :
              /\ report.attempted[p] = find_tifs(p)
              /\ Len(report.wrote[p]) + Len(report.errors[p]) = Len(find_tifs(p))

\* main ended; in pair 1 the first raster raised and the second was written,
\* and the rasters of pair 2 were attempted too, the second raising
C3_Witness ==
    /\ main.pc = "done"
    /\ report.attempted[1] = <<1, 2>>
    /\ report.errors[1] = <<1>> /\ report.wrote[1] = <<2>>
    /\ report.attempted[2] = <<1, 2>>
    /\ report.errors[2] = <<2>>

\* the positions of event e in the calls made so far for the current raster
Positions(e) == {i \in 1..Len(one.events) : one.events[i] = e}
Before(e1, e2) == \A j \in Positions(e2) : \E i \in Positions(e1) : i < j

\* C7: in every run of process_one the band is written and flushed first, the
\* transplant is attempted and the RPC block written only after the flush, the
\* verification happens only after an RPC write, and the overview builder and
\* the preview warper are invoked only after the transplant was attempted.
C7_StorageOrder ==
    InProcessOne =>
        /\ Before("WriteArray", "FlushCache")
        /\ Before("FlushCache", "embed_rpc_into_tif")
        /\ Before("embed_rpc_into_tif", "SetMetadata_RPC")
        /\ Before("SetMetadata_RPC", "verify_embedded_rpc")
        /\ Before("embed_rpc_into_tif", "gdaladdo")
        /\ Before("embed_rpc_into_tif", "gdalwarp")
        /\ Before("gdalwarp", "os.remove")
        /\ \A e \in EventsOf(one) : Cardinality(Positions(e)) = 1
        /\ one.dst_rpc => one.dst_pixels

\* process_one returned after every storage step and both tools ran
C7_Witness ==
    /\ one.pc = "returned"
    /\ one.events = << "WriteArray", "FlushCache", "embed_rpc_into_tif", "SetMetadata_RPC",
                       "verify_embedded_rpc", "gdaladdo", "gdalwarp" >>

\* the preview flag is on and terrain model, CRS and resolution are all given
PreviewInputsSupplied ==
    /\ cfg.do_quicklook
    /\ cfg.dem_path # NoneVal /\ cfg.t_srs # NoneVal /\ cfg.ql_res # NoneVal

\* C8: the preview warper is invoked only when the preview flag is on and the
\* terrain model, the CRS and the resolution are all supplied; in every other
\* configuration process_one never invokes it, logs no preview warning,
\* deletes nothing, returns no preview path and leaves no preview file.
C8_PreviewOnlyWhenSupplied ==
    InProcessOne =>
        /\ "gdalwarp" \in EventsOf(one) => PreviewInputsSupplied
        /\ ~PreviewInputsSupplied =>
               /\ EventsOf(one) \cap {"gdalwarp", "os.remove"} = {}
               /\ one.warns \cap {"gdalwarp_failed", "quicklook_not_removed"} = {}
               /\ one.faults \cap {"gdalwarp_exit", "gdalwarp_launch", "remove_failed"} = {}
               /\ one.ql_path = NoneVal
               /\ ~one.ql_exists

\* process_one returned with the preview and removal flags on, the CRS and the
\* resolution given, but no terrain model
C8_Witness ==
    /\ one.pc = "returned"
    /\ cfg.do_quicklook /\ cfg.rm_quicklook
    /\ cfg.dem_path = NoneVal /\ cfg.t_srs # NoneVal /\ cfg.ql_res = "1.0"
    /\ one.ql_path = NoneVal

\* ------------------------------------------------------------- the estimator
\* the samples of the call that are neither 0 nor 65535, and their values
PctValid == SelectSeq(pct.arr_u16, IsValidSample)
PctValidValues == {PctValid[i] : i \in 1..Len(PctValid)}

\* the k-th smallest element of nz, by counting (no sorting)
OrderStat(nz, k) ==
    CHOOSE x \in {nz[i] : i \in 1..Len(nz)} :
        /\ Cardinality({i \in 1..Len(nz) : nz[i] < x}) < k
        /\ k <= Cardinality({i \in 1..Len(nz) : nz[i] <= x})

\* the linearly interpolated p-th percentile of nz, times PctScale
InterpolatedPercentile(nz, p) ==
    LET pos == p * (Len(nz) - 1)
        k   == (pos \div PctScale) + 1
        f   == pos % PctScale
    IN  IF f = 0 THEN PctScale * OrderStat(nz, k)
        ELSE (PctScale - f) * OrderStat(nz, k) + f * OrderStat(nz, k + 1)

\* C4 as stated: for every array and every percentile pair pmin < pmax,
\* robust_percentiles returns lo < hi strictly, never lo == hi.
C4_StrictRange == pct.called => pct.ret[1] < pct.ret[2]

\* C4 amended: robust_percentiles returns lo <= hi; lo == hi happens exactly
\* when the samples that are neither 0 nor 65535 are non-empty and share one
\* value v, and then lo == hi == v; an array holding only 0 and 65535 yields
\* the fixed fallback range (1.0, 99.0).
C4_RangeOrdered ==
    pct.called =>
        /\ pct.ret[1] <= pct.ret[2]
        /\ (pct.ret[1] = pct.ret[2]) <=> (Cardinality(PctValidValues) = 1)
        /\ Cardinality(PctValidValues) = 1 =>
                \A v \in PctValidValues : pct.ret = <<PctScale * v, PctScale * v>>
        /\ PctValidValues = {} => pct.ret = <<1 * PctScale, 99 * PctScale>>

\* a constant image of one valid value, with sentinels around it, was estimated
C4_Witness ==
    /\ pct.called
    /\ Len(pct.arr_u16) >= 3
    /\ PctValidValues = {100}
    /\ Len(PctValid) >= 2
    /\ pct.ret[1] = pct.ret[2]

\* C5: when the samples strictly between 0 and 65535 take at least two
\* distinct values, robust_percentiles returns 0 <= lo < hi <= 65535, lo and hi
\* being the interpolated pmin-th and pmax-th percentiles of those samples, or
\* their minimum and maximum when the two percentiles coincide.
C5_NonDegenerateRange ==
    (pct.called /\ Cardinality(PctValidValues) >= 2) =>
        LET plo == InterpolatedPercentile(PctValid, pct.pmin)
            phi == InterpolatedPercentile(PctValid, pct.pmax)
        IN  /\ 0 <= pct.ret[1]
            /\ pct.ret[1] < pct.ret[2]
            /\ pct.ret[2] <= PctScale * U16Max
            /\ IF plo < phi
               THEN pct.ret = <<plo, phi>>
               ELSE pct.ret = <<PctScale * OrderStat(PctValid, 1),
                                PctScale * OrderStat(PctValid, Len(PctValid))>>

\* the input of test_percentiles_basic was estimated: (10.9, 99.1)
C5_Witness ==
    /\ pct.called
    /\ pct.arr_u16 = <<0, 10, 100, 65535>>
    /\ pct.pmin = 1 /\ pct.pmax = 99
    /\ pct.ret = <<1090, 9910>>

C10_NoDataPreserved ==
    (px.stage = "written" /\ px.clahe_clip <= 0) =>
        /\ px.dst_nodata = NoData
        /\ \A i \in 1..Len(px.arr) : px.arr[i] = NoData => px.dst_pixels[i] = NoData

\* ------------------------------------------------------------ sidecar copies
\* C9: in every run of copy_sidecars, for every recognised suffix, a sidecar
\* that already exists in the output directory keeps its content, and one that
\* does not exist is created as a copy of the source sidecar when that exists
\* (and is not created otherwise); over any sequence of runs.
C9_FirstWriteWins ==
    [][lastOp' = "copy_sidecars" =>
         \A suf \in Suffixes :
            LET before == dstSide[SideKey]
                after  == dstSide'[SideKey]
                source == srcSide[SideKey]
            IN  /\ Exists(before, suf) => (Exists(after, suf) /\ after[suf] = before[suf])
                /\ (~Exists(before, suf) /\ Exists(source, suf)) =>
                       (Exists(after, suf) /\ after[suf] = source[suf])
                /\ (~Exists(before, suf) /\ ~Exists(source, suf)) => ~Exists(after, suf)]_vars

\* after a run: one sidecar is still the foreign file although the source has
\* one of that name, a second is still the first copy although the source was
\* rewritten since, a third is the copy of the source
C9_Witness ==
    /\ lastOp = "copy_sidecars"
    /\ srcSide[SideKey] = (".RPB" :> 1) @@ ("_rpc.txt" :> 2) @@ (".json" :> 2)
    /\ dstSide[SideKey] = (".RPB" :> Foreign) @@ ("_rpc.txt" :> 1) @@ (".json" :> 2)
    /\ copied = << ".RPB", "_rpc.txt", ".json" >>

====
